---- MODULE Spec2Model ----
(***************************************************************************)
(* runhttp.RunServer (src/runhttp.go): one run of one http.Server, with    *)
(* the shutdown protocol built from signal.NotifyContext, an errgroup of   *)
(* two goroutines (the shutdown sequencer and the serve loop) and          *)
(* http.Server's Shutdown / Close.                                         *)
(*                                                                         *)
(* The model follows RunServer line by line.  The library calls it makes   *)
(* are modelled by what they do to the state RunServer depends on:         *)
(*   - context: cancellation propagates synchronously parent -> child;     *)
(*   - errgroup: the first non-nil error returned by a goroutine is kept   *)
(*     and cancels the group's context; Wait blocks until every goroutine  *)
(*     has returned, cancels the context and returns the kept error;       *)
(*   - http.Server: ListenAndServe returns ErrServerClosed when the server *)
(*     is shutting down (checked on entry, when the listener is tracked    *)
(*     and on every accept error) and the listen/accept error otherwise;   *)
(*     Shutdown marks the server shutting down, closes the tracked         *)
(*     listener, then polls until every connection is idle or its context  *)
(*     is done; Close marks it shutting down and closes everything.        *)
(* A goroutine's return and the errgroup's recording of its error are one  *)
(* step.                                                                   *)
(***************************************************************************)
EXTENDS Integers, Sequences, FiniteSets, TLC

\* number of connections the environment opens during one run
MaxConns == 2

\* number of SIGTERM deliveries during one run
MaxSignals == 2

Conns == 1..MaxConns

\* ---- error values ------------------------------------------------------
Nil == "nil"

ErrServerClosed == "http.ErrServerClosed"

ErrListen == "listen error"

ErrAccept == "accept error"

ErrLnClose == "listener close error"

ErrForceClose == "srv.Close error"

DeadlineExceeded == "context.DeadlineExceeded"

Errors == {Nil, ErrServerClosed, ErrListen, ErrAccept, ErrLnClose, ErrForceClose, DeadlineExceeded}

\* ---- state -------------------------------------------------------------
VARIABLES
    pc,             \* RunServer's own position
    crtCfg,         \* argument: "nil" or "cfg"
    baseDone,       \* the caller's context (argument ctx) is cancelled
    preCancelled,   \* the caller's context was cancelled at the call
    srvTLSConfig,   \* srv.TLSConfig: "unset" or "autocert"
    listenForm,     \* listenAndServe: "plain" or "tls"
    srvBaseContext, \* srv.BaseContext is installed
    ctxVar,         \* the context the variable ctx names: "base", "sig", "grp"
    subscribed,     \* SIGTERM is intercepted
    releases,       \* times the NotifyContext release function has run
    sigDone,        \* the NotifyContext context is cancelled
    grpDone,        \* the errgroup context is cancelled
    cause,          \* what cancelled the contexts first
    sigCount,       \* SIGTERM deliveries so far
    grpErr,         \* errgroup: the kept (first non-nil) error
    retOrder,       \* goroutines in the order they returned
    qpc,            \* shutdown sequencer goroutine's position
    deadline,       \* the drain context: "unset", "armed", "expired", "cancelled"
    lnerr,          \* Shutdown: result of closing the listeners
    shutdownErr,    \* what srv.Shutdown returned ("none" before)
    shutdownCalls,  \* times the sequencer invoked srv.Shutdown
    closeCount,     \* times the sequencer's deferred srv.Close has run
    closeErr,       \* what the deferred srv.Close returned ("none" before)
    spc,            \* serve goroutine's position
    servedForm,     \* the form the serve goroutine runs ("none" before)
    serveErr,       \* what listenAndServe returned ("none" before)
    closedBeforeServe, \* force-close had run when listenAndServe was entered
    inShutdown,     \* http.Server.inShutdown
    listener,       \* "none", "open" (not tracked yet), "tracked", "closed"
    connBase,       \* base context Serve took from srv.BaseContext
    conns,          \* per connection: "none", "active", "idle", "closed"
    extClosed,      \* srv.Close was called from outside RunServer
    result          \* RunServer's return value ("none" before)

vars == <<pc, crtCfg, baseDone, preCancelled, srvTLSConfig, listenForm,
          srvBaseContext, ctxVar, subscribed, releases, sigDone, grpDone,
          cause, sigCount, grpErr, retOrder, qpc, deadline, lnerr,
          shutdownErr, shutdownCalls, closeCount, closeErr, spc, servedForm,
          serveErr, closedBeforeServe, inShutdown, listener, connBase, conns,
          extClosed, result>>

mainVars == <<pc, srvTLSConfig, listenForm, srvBaseContext, ctxVar,
              subscribed, releases, result>>

argVars == <<crtCfg, preCancelled>>

seqVars == <<qpc, deadline, lnerr, shutdownErr, shutdownCalls, closeCount, closeErr>>

serveVars == <<spc, servedForm, serveErr, closedBeforeServe, connBase>>

srvVars == <<inShutdown, listener, conns>>

ctxVars == <<baseDone, sigDone, grpDone, cause>>

grpVars == <<grpErr, retOrder>>

envVars == <<sigCount, extClosed>>

Init ==
    /\ pc = "start"
    /\ crtCfg \in {"nil", "cfg"}
    /\ baseDone \in BOOLEAN
    /\ preCancelled = baseDone
    /\ srvTLSConfig = "unset"
    /\ listenForm = "plain"
    /\ srvBaseContext = FALSE
    /\ ctxVar = "base"
    /\ subscribed = FALSE
    /\ releases = 0
    /\ sigDone = FALSE
    /\ grpDone = FALSE
    /\ cause = IF baseDone THEN "parent" ELSE "none"
    /\ sigCount = 0
    /\ grpErr = Nil
    /\ retOrder = <<>>
    /\ qpc = "notstarted"
    /\ deadline = "unset"
    /\ lnerr = Nil
    /\ shutdownErr = "none"
    /\ shutdownCalls = 0
    /\ closeCount = 0
    /\ closeErr = "none"
    /\ spc = "notstarted"
    /\ servedForm = "none"
    /\ serveErr = "none"
    /\ closedBeforeServe = FALSE
    /\ inShutdown = FALSE
    /\ listener = "none"
    /\ connBase = "none"
    /\ conns = [c \in Conns |-> "none"]
    /\ extClosed = FALSE
    /\ result = "none"


\* ---- contexts ----------------------------------------------------------
\* the NotifyContext context exists (line 40 has run)
SigExists == pc \notin {"start", "notify"}

\* the errgroup context exists (line 44 has run)
GrpExists == pc \notin {"start", "notify", "group"}

CtxDone(c) ==
    CASE c = "background" -> FALSE
      [] c = "base" -> baseDone
      [] c = "sig" -> sigDone
      [] c = "grp" -> grpDone
      [] OTHER -> FALSE

\* the context signal.NotifyContext derives from: the argument ctx
NotifyParent_Detached == "background"

NotifyParent == ctxVar

\* the context srv.BaseContext hands to Serve: the closure reads the variable
\* ctx when it is called; without the field Serve uses context.Background()
BaseContextOf_SignalCtx == IF srvBaseContext THEN "sig" ELSE "background"

BaseContextOf == IF srvBaseContext THEN ctxVar ELSE "background"

\* the context of an accepted connection: derived from Serve's base context,
\* cancelled as well when the connection itself ends
ConnCtxDone(c) == CtxDone(connBase) \/ conns[c] = "closed"

\* ---- errors ------------------------------------------------------------
ErrorsIs(err, target) == err = target

\* lines 66-69: what RunServer returns for the error threads.Wait() gave
Suppress_Nothing(err) == err

Suppress(err) ==
    IF err # Nil /\ ~ErrorsIs(err, ErrServerClosed) THEN err ELSE Nil

\* errgroup: the error kept when a goroutine returns err
GroupKeep_Last(kept, err) == IF err # Nil THEN err ELSE kept

GroupKeep(kept, err) == IF kept = Nil THEN err ELSE kept

\* an errgroup that keeps the error but leaves its context alone
GroupDone_NoCancel(task, err) ==
    /\ retOrder' = Append(retOrder, task)
    /\ grpErr' = GroupKeep(grpErr, err)
    /\ UNCHANGED <<baseDone, sigDone, grpDone, cause>>

\* errgroup: goroutine `task` returns err
GroupDone(task, err) ==
    /\ retOrder' = Append(retOrder, task)
    /\ grpErr' = GroupKeep(grpErr, err)
    /\ IF err # Nil /\ grpErr = Nil
         THEN /\ grpDone' = TRUE
              /\ cause' = IF grpDone THEN cause ELSE task
         ELSE UNCHANGED <<grpDone, cause>>
    /\ UNCHANGED <<baseDone, sigDone>>

\* threads.Wait() returns once both goroutines have returned
WaitReady_Any == Len(retOrder) >= 1

WaitReady == Len(retOrder) = 2

\* ---- http.Server -------------------------------------------------------
ClosedConns == [c \in Conns |-> IF conns[c] \in {"active", "idle"} THEN "closed" ELSE conns[c]]

IdleClosedConns == [c \in Conns |-> IF conns[c] = "idle" THEN "closed" ELSE conns[c]]

Quiescent == \A c \in Conns : conns[c] # "active"

\* srv.Close(): shutting down, tracked listener and every connection closed
SrvClose ==
    /\ inShutdown' = TRUE
    /\ listener' = IF listener = "tracked" THEN "closed" ELSE listener
    /\ conns' = ClosedConns

\* ---- RunServer, lines 26-47: setup --------------------------------------
\* the TLS configuration is attached but the plain form is still served
TLSBootstrap_KeepsPlain ==
    /\ pc = "start"
    /\ IF crtCfg # "nil"
         THEN srvTLSConfig' = "autocert"
         ELSE UNCHANGED srvTLSConfig
    /\ pc' = "notify"
    /\ UNCHANGED <<listenForm, srvBaseContext, ctxVar, subscribed, releases, result>>
    /\ UNCHANGED <<argVars, ctxVars, grpVars, seqVars, serveVars, srvVars, envVars>>

TLSBootstrap ==
    /\ pc = "start"
    /\ IF crtCfg # "nil"
         THEN srvTLSConfig' = "autocert" /\ listenForm' = "tls"
         ELSE UNCHANGED <<srvTLSConfig, listenForm>>
    /\ pc' = "notify"
    /\ UNCHANGED <<srvBaseContext, ctxVar, subscribed, releases, result>>
    /\ UNCHANGED <<argVars, ctxVars, grpVars, seqVars, serveVars, srvVars, envVars>>

NotifyContext ==
    /\ pc = "notify"
    /\ subscribed' = TRUE
    /\ sigDone' = CtxDone(NotifyParent)
    /\ ctxVar' = "sig"
    /\ pc' = "group"
    /\ UNCHANGED <<srvTLSConfig, listenForm, srvBaseContext, releases, result>>
    /\ UNCHANGED <<baseDone, grpDone, cause>>
    /\ UNCHANGED <<argVars, grpVars, seqVars, serveVars, srvVars, envVars>>

\* a group context that is not derived from the NotifyContext context
WithContext_Detached ==
    /\ pc = "group"
    /\ grpDone' = CtxDone("background")
    /\ ctxVar' = "grp"
    /\ pc' = "basectx"
    /\ UNCHANGED <<srvTLSConfig, listenForm, srvBaseContext, subscribed, releases, result>>
    /\ UNCHANGED <<baseDone, sigDone, cause>>
    /\ UNCHANGED <<argVars, grpVars, seqVars, serveVars, srvVars, envVars>>

WithContext ==
    /\ pc = "group"
    /\ grpDone' = CtxDone(ctxVar)
    /\ ctxVar' = "grp"
    /\ pc' = "basectx"
    /\ UNCHANGED <<srvTLSConfig, listenForm, srvBaseContext, subscribed, releases, result>>
    /\ UNCHANGED <<baseDone, sigDone, cause>>
    /\ UNCHANGED <<argVars, grpVars, seqVars, serveVars, srvVars, envVars>>

SetBaseContext ==
    /\ pc = "basectx"
    /\ srvBaseContext' = TRUE
    /\ pc' = "go1"
    /\ UNCHANGED <<srvTLSConfig, listenForm, ctxVar, subscribed, releases, result>>
    /\ UNCHANGED <<argVars, ctxVars, grpVars, seqVars, serveVars, srvVars, envVars>>

\* ---- lines 50 and 63: the two goroutines are launched --------------------
GoSequencer ==
    /\ pc = "go1"
    /\ qpc' = "waiting"
    /\ pc' = "go2"
    /\ UNCHANGED <<srvTLSConfig, listenForm, srvBaseContext, ctxVar, subscribed, releases, result>>
    /\ UNCHANGED <<deadline, lnerr, shutdownErr, shutdownCalls, closeCount, closeErr>>
    /\ UNCHANGED <<argVars, ctxVars, grpVars, serveVars, srvVars, envVars>>

GoServe ==
    /\ pc = "go2"
    /\ spc' = "check"
    /\ pc' = "wait"
    /\ UNCHANGED <<srvTLSConfig, listenForm, srvBaseContext, ctxVar, subscribed, releases, result>>
    /\ UNCHANGED <<servedForm, serveErr, closedBeforeServe, connBase>>
    /\ UNCHANGED <<argVars, ctxVars, grpVars, seqVars, srvVars, envVars>>

\* ---- lines 66-69 and the deferred cancel of line 41 ----------------------
\* the release function called on the success path only, not deferred
WaitReturn_NoReleaseOnError ==
    /\ pc = "wait"
    /\ WaitReady
    /\ result' = Suppress(grpErr)
    /\ grpDone' = TRUE
    /\ cause' = IF grpDone THEN cause ELSE "wait"
    /\ IF Suppress(grpErr) = Nil
         THEN subscribed' = FALSE /\ releases' = releases + 1 /\ sigDone' = TRUE
         ELSE UNCHANGED <<subscribed, releases, sigDone>>
    /\ pc' = "done"
    /\ UNCHANGED <<srvTLSConfig, listenForm, srvBaseContext, ctxVar, baseDone>>
    /\ UNCHANGED <<argVars, grpVars, seqVars, serveVars, srvVars, envVars>>

\* the handle's context factory cleared again on return
WaitReturn_ResetsHandle ==
    /\ pc = "wait"
    /\ WaitReady
    /\ result' = Suppress(grpErr)
    /\ grpDone' = TRUE
    /\ cause' = IF grpDone THEN cause ELSE "wait"
    /\ subscribed' = FALSE
    /\ releases' = releases + 1
    /\ sigDone' = TRUE
    /\ srvBaseContext' = FALSE
    /\ pc' = "done"
    /\ UNCHANGED <<srvTLSConfig, listenForm, ctxVar, baseDone>>
    /\ UNCHANGED <<argVars, grpVars, seqVars, serveVars, srvVars, envVars>>

WaitReturn ==
    /\ pc = "wait"
    /\ WaitReady
    /\ result' = Suppress(grpErr)
    /\ grpDone' = TRUE
    /\ cause' = IF grpDone THEN cause ELSE "wait"
    /\ subscribed' = FALSE
    /\ releases' = releases + 1
    /\ sigDone' = TRUE
    /\ pc' = "done"
    /\ UNCHANGED <<srvTLSConfig, listenForm, srvBaseContext, ctxVar, baseDone>>
    /\ UNCHANGED <<argVars, grpVars, seqVars, serveVars, srvVars, envVars>>


\* ---- lines 50-60: the shutdown sequencer --------------------------------
\* line 56: the drain context, context.WithTimeout(context.Background(), 3s)
DrainDeadline_None == "unset"

\* a drain context derived from the shared context, which is already done
DrainDeadline_FromShared == IF CtxDone(ctxVar) THEN "expired" ELSE "armed"

DrainDeadline == "armed"

\* line 51: the deferred srv.Close() runs whatever Shutdown returned
ForceCloseRuns_OnSuccess(err) == err = Nil

ForceCloseRuns(err) == TRUE

\* a sequencer that does not block on ctx.Done()
SeqWake_NoWait ==
    /\ qpc = "waiting"
    /\ deadline' = DrainDeadline
    /\ shutdownCalls' = shutdownCalls + 1
    /\ inShutdown' = TRUE
    /\ IF listener = "tracked"
         THEN listener' = "closed" /\ lnerr' \in {Nil, ErrLnClose}
         ELSE UNCHANGED <<listener, lnerr>>
    /\ qpc' = "draining"
    /\ UNCHANGED <<shutdownErr, closeCount, closeErr, conns>>
    /\ UNCHANGED <<mainVars, argVars, ctxVars, grpVars, serveVars, envVars>>

\* lines 53-59: <-ctx.Done() returns, the drain context is made and
\* srv.Shutdown starts: the server is marked shutting down and the tracked
\* listener is closed (its Close may fail)
SeqWake ==
    /\ qpc = "waiting"
    /\ CtxDone(ctxVar)
    /\ deadline' = DrainDeadline
    /\ shutdownCalls' = shutdownCalls + 1
    /\ inShutdown' = TRUE
    /\ IF listener = "tracked"
         THEN listener' = "closed" /\ lnerr' \in {Nil, ErrLnClose}
         ELSE UNCHANGED <<listener, lnerr>>
    /\ qpc' = "draining"
    /\ UNCHANGED <<shutdownErr, closeCount, closeErr, conns>>
    /\ UNCHANGED <<mainVars, argVars, ctxVars, grpVars, serveVars, envVars>>

\* srv.Shutdown's loop: idle connections are closed; when none is left
\* active Shutdown returns the listeners' close error
ShutdownPoll ==
    /\ qpc \in {"draining", "polling"}
    /\ conns' = IdleClosedConns
    /\ IF Quiescent
         THEN qpc' = "shutdownReturned" /\ shutdownErr' = lnerr
         ELSE qpc' = "polling" /\ UNCHANGED shutdownErr
    /\ UNCHANGED <<deadline, lnerr, shutdownCalls, closeCount, closeErr, inShutdown, listener>>
    /\ UNCHANGED <<mainVars, argVars, ctxVars, grpVars, serveVars, envVars>>

\* the 3 seconds of line 56 pass
DeadlineExpire ==
    /\ deadline = "armed"
    /\ deadline' = "expired"
    /\ UNCHANGED <<qpc, lnerr, shutdownErr, shutdownCalls, closeCount, closeErr>>
    /\ UNCHANGED <<mainVars, argVars, ctxVars, grpVars, serveVars, srvVars, envVars>>

\* srv.Shutdown's loop: the drain context is done, Shutdown returns its error
ShutdownTimeout ==
    /\ qpc = "polling"
    /\ deadline = "expired"
    /\ shutdownErr' = DeadlineExceeded
    /\ qpc' = "shutdownReturned"
    /\ UNCHANGED <<deadline, lnerr, shutdownCalls, closeCount, closeErr>>
    /\ UNCHANGED <<mainVars, argVars, ctxVars, grpVars, serveVars, srvVars, envVars>>

\* lines 57 and 51: the deferred cancel, then the deferred srv.Close()
SeqForceClose ==
    /\ qpc = "shutdownReturned"
    /\ deadline' = IF deadline = "unset" THEN "unset" ELSE "cancelled"
    /\ IF ForceCloseRuns(shutdownErr)
         THEN /\ closeCount' = closeCount + 1
              /\ closeErr' \in {Nil, ErrForceClose}
              /\ SrvClose
         ELSE UNCHANGED <<closeCount, closeErr, srvVars>>
    /\ qpc' = "closed"
    /\ UNCHANGED <<lnerr, shutdownErr, shutdownCalls>>
    /\ UNCHANGED <<mainVars, argVars, ctxVars, grpVars, serveVars, envVars>>

\* lines 51 and 59: the goroutine's return value is what srv.Shutdown
\* returned; what the deferred srv.Close() returned is dropped
SeqResult_JoinsClose(sErr, cErr) == IF sErr = Nil THEN cErr ELSE sErr

SeqResult(sErr, cErr) == sErr

\* line 59: the goroutine returns Shutdown's error to the errgroup
SeqReturn ==
    /\ qpc = "closed"
    /\ qpc' = "returned"
    /\ GroupDone("seq", SeqResult(shutdownErr, closeErr))
    /\ UNCHANGED <<deadline, lnerr, shutdownErr, shutdownCalls, closeCount, closeErr>>
    /\ UNCHANGED <<mainVars, argVars, serveVars, srvVars, envVars>>

\* ---- line 63: the serve loop (srv.ListenAndServe / ListenAndServeTLS) ----
ServeReturn(err) ==
    /\ spc' = "returned"
    /\ serveErr' = err
    /\ GroupDone("serve", err)

\* entry: a server that is shutting down does not start
ServeCheck ==
    /\ spc = "check"
    /\ servedForm' = listenForm
    /\ closedBeforeServe' = (closeCount > 0)
    /\ IF inShutdown
         THEN ServeReturn(ErrServerClosed)
         ELSE spc' = "listen" /\ UNCHANGED <<serveErr, ctxVars, grpVars>>
    /\ UNCHANGED <<connBase>>
    /\ UNCHANGED <<mainVars, argVars, seqVars, srvVars, envVars>>

\* net.Listen succeeds
ServeListenOk ==
    /\ spc = "listen"
    /\ listener' = "open"
    /\ spc' = "track"
    /\ UNCHANGED <<servedForm, serveErr, closedBeforeServe, connBase, inShutdown, conns>>
    /\ UNCHANGED <<mainVars, argVars, ctxVars, grpVars, seqVars, envVars>>

\* net.Listen fails (address in use, ...)
ServeListenFail ==
    /\ spc = "listen"
    /\ ServeReturn(ErrListen)
    /\ UNCHANGED <<servedForm, closedBeforeServe, connBase>>
    /\ UNCHANGED <<mainVars, argVars, seqVars, srvVars, envVars>>

\* Serve: the listener is tracked unless the server is shutting down, then
\* the base context is taken from srv.BaseContext
ServeTrack ==
    /\ spc = "track"
    /\ IF inShutdown
         THEN /\ listener' = "closed"
              /\ ServeReturn(ErrServerClosed)
              /\ UNCHANGED connBase
         ELSE /\ listener' = "tracked"
              /\ connBase' = BaseContextOf
              /\ spc' = "accept"
              /\ UNCHANGED <<serveErr, ctxVars, grpVars>>
    /\ UNCHANGED <<servedForm, closedBeforeServe, inShutdown, conns>>
    /\ UNCHANGED <<mainVars, argVars, seqVars, envVars>>

\* Serve: a connection is accepted and served with a context derived from
\* the base context
ServeAccept(c) ==
    /\ spc = "accept"
    /\ listener = "tracked"
    /\ conns[c] = "none"
    /\ \A d \in Conns : d < c => conns[d] # "none"
    /\ conns' = [conns EXCEPT ![c] = "active"]
    /\ UNCHANGED <<inShutdown, listener>>
    /\ UNCHANGED <<mainVars, argVars, ctxVars, grpVars, seqVars, serveVars, envVars>>

\* Serve: Accept fails; the error is ErrServerClosed when shutting down
AcceptError == IF inShutdown THEN ErrServerClosed ELSE ErrAccept

\* Serve: Accept on the listener that Shutdown or Close has closed
ServeAcceptClosed ==
    /\ spc = "accept"
    /\ listener = "closed"
    /\ ServeReturn(AcceptError)
    /\ UNCHANGED <<servedForm, closedBeforeServe, connBase>>
    /\ UNCHANGED <<mainVars, argVars, seqVars, srvVars, envVars>>

\* Serve: Accept fails on the open listener (a socket error)
ServeAcceptFail ==
    /\ spc = "accept"
    /\ listener = "tracked"
    /\ listener' = "closed"
    /\ ServeReturn(AcceptError)
    /\ UNCHANGED <<servedForm, closedBeforeServe, connBase, inShutdown, conns>>
    /\ UNCHANGED <<mainVars, argVars, seqVars, envVars>>

\* ---- connections -------------------------------------------------------
\* a request ends: the connection goes idle, or is closed when the server is
\* shutting down (no keep-alive)
ConnFinish(c) ==
    /\ conns[c] = "active"
    /\ conns' = [conns EXCEPT ![c] = IF inShutdown THEN "closed" ELSE "idle"]
    /\ UNCHANGED <<inShutdown, listener>>
    /\ UNCHANGED <<mainVars, argVars, ctxVars, grpVars, seqVars, serveVars, envVars>>

\* a new request arrives on an idle connection
ConnRequest(c) ==
    /\ conns[c] = "idle"
    /\ conns' = [conns EXCEPT ![c] = "active"]
    /\ UNCHANGED <<inShutdown, listener>>
    /\ UNCHANGED <<mainVars, argVars, ctxVars, grpVars, seqVars, serveVars, envVars>>

\* ---- environment -------------------------------------------------------
\* a subscription that ends with the first delivery
Signal_OneShot ==
    /\ subscribed
    /\ sigCount < MaxSignals
    /\ sigCount' = sigCount + 1
    /\ subscribed' = FALSE
    /\ sigDone' = TRUE
    /\ grpDone' = IF GrpExists THEN TRUE ELSE grpDone
    /\ cause' = IF cause = "none" THEN "signal" ELSE cause
    /\ UNCHANGED <<baseDone, extClosed>>
    /\ UNCHANGED <<pc, srvTLSConfig, listenForm, srvBaseContext, ctxVar, releases, result>>
    /\ UNCHANGED <<argVars, grpVars, seqVars, serveVars, srvVars>>

\* SIGTERM is delivered while it is intercepted
Signal ==
    /\ subscribed
    /\ sigCount < MaxSignals
    /\ sigCount' = sigCount + 1
    /\ sigDone' = TRUE
    /\ grpDone' = IF GrpExists THEN TRUE ELSE grpDone
    /\ cause' = IF cause = "none" THEN "signal" ELSE cause
    /\ UNCHANGED <<baseDone, extClosed>>
    /\ UNCHANGED <<mainVars, argVars, grpVars, seqVars, serveVars, srvVars>>

\* the caller cancels the context it passed
BaseCancel ==
    /\ pc # "done"
    /\ ~baseDone
    /\ baseDone' = TRUE
    /\ sigDone' = IF SigExists THEN TRUE ELSE sigDone
    /\ grpDone' = IF GrpExists THEN TRUE ELSE grpDone
    /\ cause' = IF cause = "none" THEN "parent" ELSE cause
    /\ UNCHANGED <<mainVars, argVars, grpVars, seqVars, serveVars, srvVars, envVars>>

\* the server is closed from outside RunServer (srv.Close() by a handler or
\* by the caller) while the run is in progress
ExternalClose ==
    /\ pc = "wait"
    /\ ~extClosed
    /\ extClosed' = TRUE
    /\ SrvClose
    /\ UNCHANGED sigCount
    /\ UNCHANGED <<mainVars, argVars, ctxVars, grpVars, seqVars, serveVars>>

\* ---- specification -----------------------------------------------------
MainStep ==
    \/ TLSBootstrap
    \/ NotifyContext
    \/ WithContext
    \/ SetBaseContext
    \/ GoSequencer
    \/ GoServe
    \/ WaitReturn

SeqStep ==
    \/ SeqWake
    \/ ShutdownPoll
    \/ ShutdownTimeout
    \/ SeqForceClose
    \/ SeqReturn

\* the serve loop's steps that need nothing from the environment
ServeStep ==
    \/ ServeCheck
    \/ ServeListenOk
    \/ ServeListenFail
    \/ ServeTrack
    \/ ServeAcceptClosed

EnvStep ==
    \/ \E c \in Conns : ServeAccept(c)
    \/ ServeAcceptFail
    \/ \E c \in Conns : ConnFinish(c)
    \/ \E c \in Conns : ConnRequest(c)
    \/ Signal
    \/ BaseCancel
    \/ ExternalClose

Next ==
    \/ MainStep
    \/ SeqStep
    \/ ServeStep
    \/ DeadlineExpire
    \/ EnvStep

Spec == Init /\ [][Next]_vars

\* the Go scheduler runs every runnable goroutine, and time passes; nothing
\* is assumed of the environment (connections, signals, failures)
Fairness ==
    /\ WF_vars(MainStep)
    /\ WF_vars(SeqStep)
    /\ WF_vars(ServeStep)
    /\ WF_vars(DeadlineExpire)

FairSpec == Spec /\ Fairness


\* ---- properties ----------------------------------------------------------
Returned == pc = "done"

\* a failure of the serve operation other than "server closed"
Genuine(err) == err \in {ErrListen, ErrAccept}

\* C1: RunServer never returns the "server closed" condition: when the
\* aggregated error is server-closed the call returns success.
C1_NeverReturnsServerClosed ==
    /\ ~ErrorsIs(result, ErrServerClosed)
    /\ Returned /\ ErrorsIs(grpErr, ErrServerClosed) => result = Nil

C1_Witness ==
    /\ Returned
    /\ grpErr = ErrServerClosed
    /\ result = Nil

\* C2: when the graceful shutdown timed out (Shutdown returned deadline
\* exceeded) and no genuine serve-loop failure was returned before it,
\* RunServer returns deadline exceeded, whichever goroutine returned first.
C2_DrainTimeoutReported ==
    (/\ Returned
     /\ shutdownErr = DeadlineExceeded
     /\ ~(Genuine(serveErr) /\ retOrder[1] = "serve"))
    => result = DeadlineExceeded

\* C3: a genuine failure of the serve operation that is returned while the
\* shared context is still uncancelled is exactly what RunServer returns.
C3_ServeFailurePropagates ==
    (Returned /\ cause = "serve" /\ Genuine(serveErr)) => result = serveErr

\* a serve failure with no signal and no cancellation by the caller, and a
\* later error of the sequencer that is dropped
C3_Witness ==
    /\ Returned
    /\ cause = "serve"
    /\ serveErr = ErrAccept
    /\ result = ErrAccept
    /\ shutdownErr = DeadlineExceeded
    /\ sigCount = 0
    /\ ~baseDone

\* C4: the sequencer's force-close runs exactly once in every run that
\* returns, never more than once in any run.
C4_ForceCloseOnce ==
    /\ closeCount <= 1
    /\ Returned => closeCount = 1

C4_Witness ==
    /\ Returned
    /\ closeCount = 1
    /\ shutdownErr \in {DeadlineExceeded, ErrLnClose}

\* C5: once SIGTERM has been delivered (while it is intercepted) the
\* sequencer force-closes, the serve loop exits and RunServer returns.
C5_SignalLeadsToReturn ==
    (sigCount > 0) ~>
        (Returned /\ qpc = "returned" /\ spc = "returned" /\ closeCount = 1)

\* the drain that only its deadline ended
C5_Witness ==
    /\ sigCount > 0
    /\ cause = "signal"
    /\ Returned
    /\ shutdownErr = DeadlineExceeded

\* C6: a shutdown triggered by SIGTERM whose graceful shutdown returned nil,
\* the serve loop returning "server closed", makes RunServer return nil in
\* both orders of the two returns.
C6_SignalShutdownIsSuccess ==
    (/\ Returned
     /\ cause = "signal"
     /\ shutdownErr = Nil
     /\ serveErr = ErrServerClosed)
    => result = Nil

\* the order in which "server closed" is returned after the sequencer's nil
C6_Witness ==
    /\ Returned
    /\ cause = "signal"
    /\ shutdownErr = Nil
    /\ serveErr = ErrServerClosed
    /\ retOrder = <<"seq", "serve">>
    /\ result = Nil

\* C7: with no signal and no cancellation by the caller, a server closed
\* from outside whose serve operation returns "server closed" makes
\* RunServer return nil: the serve loop's return is what wakes the
\* sequencer, which then drains and force-closes.
C7_OutsideCloseIsSuccess ==
    (/\ Returned
     /\ sigCount = 0
     /\ ~baseDone
     /\ extClosed
     /\ serveErr = ErrServerClosed)
    => /\ result = Nil
       /\ cause = "serve"
       /\ retOrder[1] = "serve"
       /\ shutdownCalls = 1
       /\ closeCount = 1

C7_Witness ==
    /\ Returned
    /\ sigCount = 0
    /\ ~baseDone
    /\ extClosed
    /\ serveErr = ErrServerClosed
    /\ result = Nil

\* C8: with a context that is already cancelled at the call the sequencer
\* can leave Waiting as soon as it waits, with no signal, and the call
\* returns in every interleaving.
C8_PreCancelledReturns ==
    /\ [](preCancelled /\ qpc = "waiting" => CtxDone("grp"))
    /\ (preCancelled ~> Returned)

\* the interleaving where Shutdown and the force-close are over before the
\* serve loop is entered
C8_Witness ==
    /\ preCancelled
    /\ Returned
    /\ closedBeforeServe
    /\ sigCount = 0
    /\ ~extClosed

\* C9: when RunServer returns, both goroutines have returned and the server
\* has been force-closed.
C9_ReturnsAfterBoth ==
    Returned =>
        /\ spc = "returned"
        /\ qpc = "returned"
        /\ closeCount >= 1
        /\ inShutdown

C9_Witness ==
    /\ Returned
    /\ retOrder = <<"serve", "seq">>
    /\ closeCount = 1

\* C10: every accepted connection's base context is the errgroup context,
\* so whenever that context is cancelled the connection's context is too.
C10_ConnContextFollowsShared ==
    \A c \in Conns :
        conns[c] # "none" =>
            /\ connBase = "grp"
            /\ grpDone => ConnCtxDone(c)

\* a connection still busy when a failing serve loop cancelled the context
C10_Witness ==
    \E c \in Conns :
        /\ conns[c] = "active"
        /\ cause = "serve"
        /\ grpDone
        /\ ConnCtxDone(c)


\* one of the two goroutines has been launched
Launched == qpc # "notstarted" \/ spc # "notstarted"

\* C11: SIGTERM is intercepted for the duration of the call only: the
\* subscription is made before the goroutines are launched and is released
\* exactly once, on return, whether RunServer returns an error or nil.
C11_SubscriptionScopedToCall ==
    /\ releases <= 1
    /\ subscribed => pc \notin {"start", "notify", "done"}
    /\ Launched /\ ~Returned => subscribed /\ releases = 0
    /\ Returned => ~subscribed /\ releases = 1

\* the exit path that returns an error
C11_Witness ==
    /\ Returned
    /\ result # Nil
    /\ ~subscribed
    /\ releases = 1

\* C12: the serve form is fixed by setup: with an autocert configuration
\* the TLS form is the one the serve loop runs and srv.TLSConfig is set,
\* without one the plain form is run and srv.TLSConfig is untouched.
C12_ServeFormChosenOnce ==
    /\ pc # "start" =>
        /\ listenForm = IF crtCfg = "nil" THEN "plain" ELSE "tls"
        /\ srvTLSConfig = IF crtCfg = "nil" THEN "unset" ELSE "autocert"
    /\ servedForm # "none" =>
        servedForm = IF crtCfg = "nil" THEN "plain" ELSE "tls"

C12_Witness ==
    /\ Returned
    /\ crtCfg # "nil"
    /\ servedForm = "tls"
    /\ srvTLSConfig = "autocert"

\* C13: whenever the serve loop has returned the shared context is
\* cancelled, and the sequencer then leaves Waiting.
C13_ServeExitCancels ==
    /\ [](spc = "returned" => grpDone)
    /\ (spc = "returned" ~> qpc \notin {"notstarted", "waiting"})

\* the serve loop's return is what cancelled, the sequencer not yet awake
C13_Witness ==
    /\ spc = "returned"
    /\ cause = "serve"
    /\ grpDone
    /\ qpc = "waiting"
    /\ sigCount = 0
    /\ ~baseDone

\* the sequencer's state: 1 Waiting, 2 Draining, 3 Closed (0 before launch)
SeqPhase ==
    CASE qpc = "notstarted" -> 0
      [] qpc = "waiting" -> 1
      [] qpc \in {"draining", "polling", "shutdownReturned"} -> 2
      [] qpc \in {"closed", "returned"} -> 3

\* C14: the sequencer goes Waiting -> Draining -> Closed one state at a
\* time and never back; srv.Shutdown is invoked only with the shared context
\* cancelled and exactly once per run; the force-close comes after Shutdown
\* has returned.
C14_SequencerOrder ==
    /\ [][SeqPhase' \in {SeqPhase, SeqPhase + 1}]_vars
    /\ [][shutdownCalls' # shutdownCalls => CtxDone(ctxVar)]_vars
    /\ [](/\ shutdownCalls = (IF SeqPhase >= 2 THEN 1 ELSE 0)
          /\ SeqPhase >= 2 => grpDone
          /\ closeCount > 0 => shutdownErr # "none" /\ SeqPhase = 3
          /\ Returned => shutdownCalls = 1)

C14_Witness ==
    /\ qpc = "closed"
    /\ shutdownCalls = 1
    /\ shutdownErr = Nil
    /\ closeCount = 1
    /\ grpDone

\* C15: when srv.Shutdown is invoked its own deadline is not done although
\* the shared context is; the caller's cancellation leaves the deadline as it
\* is, which ends only by its own timer or by the deferred cancel after
\* Shutdown has returned.
C15_DrainDeadlineIndependent ==
    /\ [][(qpc = "waiting" /\ qpc' = "draining") => (deadline' = "armed" /\ grpDone')]_vars
    /\ [][baseDone' # baseDone => deadline' = deadline]_vars
    /\ [][(deadline = "armed" /\ deadline' # "armed") =>
            \/ deadline' = "expired" /\ UNCHANGED <<baseDone, sigDone, grpDone>>
            \/ deadline' = "cancelled" /\ qpc = "shutdownReturned"]_vars

\* the drain running on a fresh deadline under a context cancelled at the call
C15_Witness ==
    /\ qpc = "polling"
    /\ deadline = "armed"
    /\ preCancelled
    /\ grpDone

\* the error a goroutine returned
ErrOf(task) == IF task = "serve" THEN serveErr ELSE shutdownErr

\* the errors returned so far, in order of return
ReturnedErrs == [i \in 1..Len(retOrder) |-> ErrOf(retOrder[i])]

\* the first non-nil one of them
FirstError ==
    IF \E i \in DOMAIN ReturnedErrs : ReturnedErrs[i] # Nil
      THEN ReturnedErrs[CHOOSE i \in DOMAIN ReturnedErrs :
                            /\ ReturnedErrs[i] # Nil
                            /\ \A j \in 1..(i - 1) : ReturnedErrs[j] = Nil]
      ELSE Nil

\* C16: the errgroup keeps the first non-nil error in order of return, drops
\* a later one, and a kept error means the shared context is cancelled.
C16_FirstErrorWins ==
    /\ grpErr = FirstError
    /\ grpErr # Nil => grpDone

\* the sequencer's error first, the serve loop's later one dropped
C16_Witness ==
    /\ retOrder = <<"seq", "serve">>
    /\ shutdownErr = DeadlineExceeded
    /\ serveErr = ErrServerClosed
    /\ grpErr = DeadlineExceeded

\* C17: srv.TLSConfig and srv.BaseContext change only in steps that start
\* and end before either goroutine is launched; at the launch the handle is
\* fully configured.
C17_HandleConfiguredBeforeLaunch ==
    /\ [][(srvTLSConfig' # srvTLSConfig \/ srvBaseContext' # srvBaseContext)
            => ~Launched /\ ~Launched']_vars
    /\ [](Launched => srvBaseContext)

C17_Witness ==
    /\ Launched
    /\ spc = "accept"
    /\ srvBaseContext
    /\ srvTLSConfig = "autocert"

\* C18: what RunServer returns is nil, the serve operation's error or
\* Shutdown's error, never what the force-close returned.
C18_ForceCloseResultDropped ==
    /\ grpErr # ErrForceClose
    /\ Returned =>
        /\ result \in {Nil, serveErr, shutdownErr}
        /\ result # ErrForceClose

\* a failed force-close and a successful run
C18_Witness ==
    /\ Returned
    /\ closeErr = ErrForceClose
    /\ shutdownErr = Nil
    /\ result = Nil

\* everything but the count of deliveries
AllButSigCount ==
    <<mainVars, argVars, ctxVars, grpVars, seqVars, serveVars, srvVars, extClosed>>

\* C19: a further SIGTERM while the call is active is still intercepted and
\* changes nothing: no second Shutdown or force-close, the drain and the
\* outcome are as they were.
C19_FurtherSignalsChangeNothing ==
    /\ [][(sigCount >= 1 /\ sigCount' # sigCount) => UNCHANGED AllButSigCount]_vars
    /\ [](sigCount >= 1 /\ ~Returned => subscribed)
    /\ [](shutdownCalls <= 1 /\ closeCount <= 1)

\* two deliveries, the drain still on its deadline
C19_Witness ==
    /\ sigCount >= 2
    /\ qpc = "polling"
    /\ deadline = "armed"
    /\ subscribed

\* the context the variable ctx names is cancelled
SharedDone == CtxDone(ctxVar)

\* C20: the shared context never goes back from cancelled to uncancelled,
\* also across the derivations of lines 40 and 44, and RunServer does not
\* return with it uncancelled and the serve loop still running.
C20_CancellationMonotonic ==
    /\ [][SharedDone => SharedDone']_vars
    /\ [][grpDone => grpDone']_vars
    /\ [](Returned => ~(~grpDone /\ spc # "returned"))

C20_Witness ==
    /\ Returned
    /\ cause = "signal"
    /\ grpDone
    /\ spc = "returned"

====
